---- MODULE Spec2Model ----
(***************************************************************************)
(* Model of package speculatively (speculatively.go): one call of          *)
(*                                                                         *)
(*     Do(ctx, patience, thunk)                                            *)
(*                                                                         *)
(* together with the goroutines it starts (runThunk), the ticker it        *)
(* creates and the caller's context.                                       *)
(*                                                                         *)
(* Go semantics the model follows:                                         *)
(*  - `out` is made with make(chan result): it is unbuffered.  runThunk    *)
(*    sends with select/default, so a send succeeds only when Do is        *)
(*    blocked in its select at that moment; otherwise it takes the default *)
(*    branch and the result is gone.                                       *)
(*  - a select with no ready case blocks until the first of its channels   *)
(*    becomes ready; with several ready cases it takes any one of them.    *)
(*  - the ticker's channel has a buffer of one; a tick that finds the      *)
(*    buffer full is dropped.  time.NewTicker panics for a duration <= 0.  *)
(*  - context.WithCancel(parent) is done as soon as parent is done, with   *)
(*    parent's error; its own cancel gives the error Canceled.             *)
(*  - timers fire at or after their due time and goroutines are scheduled  *)
(*    at arbitrary moments: time may pass between any two steps.           *)
(***************************************************************************)
EXTENDS Integers, FiniteSets, Sequences, TLC

\* ------------------------------------------------------------------ bounds
MaxAttempts == 3      \* attempts (goroutines) followed per call
MaxTime     == 3      \* clock horizon, in time units
MaxPatience == 2      \* largest patience tried; 0 is tried too

\* --------------------------------------------------------------- constants
Zero == 0             \* `var zero T` for T = int

Ids      == 0 .. (MaxAttempts - 1)
NoAttempt == MaxAttempts
Vals     == {1, 2}                      \* values a task may produce
TaskErrs == {"nil", "boom"}             \* a task's own error, or none
CtxErrs  == {"Canceled", "DeadlineExceeded"}
Errs     == TaskErrs \cup CtxErrs

\* result{val, err}
result(v, e) == [val |-> v, err |-> e]
NoResult     == [val |-> Zero, err |-> "unset"]
\* The pairs the task of this model produces: a success and a failure, with
\* different values, so that a pair put together from two attempts shows.
TaskResults  == {result(1, "nil"), result(2, "boom")}

VARIABLES
  patience,     \* Do's argument
  deadline,     \* the input context's deadline (MaxTime + 1: none in the horizon)
  now,          \* the clock
  parentErr,    \* input ctx: "nil" while not done, else its Err()
  childErr,     \* ctx derived by WithCancel: "nil" while not done, else its Err()
  pcDo,         \* where Do is
  ret,          \* the pair Do returns
  outcome,      \* which select case made Do return: "none", "result", "ctx"
  winner,       \* the attempt whose send Do received
  received,     \* how many results Do has received from out
  tickerOn,     \* ticker created and not stopped
  nextTick,     \* when the ticker is due next
  tickBuf,      \* ticks waiting in ticker.C (capacity 1)
  ticksTaken,   \* ticks Do has received from ticker.C
  launched,     \* `go runThunk` statements executed
  att,          \* each attempt's goroutine: where it is
  res,          \* each attempt's r, once thunk(ctx) has returned
  sent,         \* each attempt's select in runThunk: "no", "delivered", "dropped"
  firstArrived, \* history: first attempt to reach its send
  firstAt,      \* history: at that moment, was the input ctx still not done
                \* (beforeCtx) and was the first patience interval still
                \* running (early)
  ctxFirst,     \* history: the input ctx became done before any task returned
  prompt        \* history: no timer fired late and Do was never kept waiting

vars == <<patience, deadline, now, parentErr, childErr, pcDo, ret, outcome,
          winner, received, tickerOn, nextTick, tickBuf, ticksTaken, launched,
          att, res, sent, firstArrived, firstAt, ctxFirst, prompt>>

ctxVars   == <<parentErr, childErr, ctxFirst>>
doVars    == <<pcDo, ret, outcome, winner, received>>
tickVars  == <<tickerOn, nextTick, tickBuf, ticksTaken>>
attVars   == <<att, res, sent, firstArrived, firstAt>>
inputVars == <<patience, deadline>>

PcValues == {"call", "select", "parked", "tick", "returning", "panicking",
             "done", "panicked"}

TypeOK ==
  /\ patience \in 0 .. MaxPatience
  /\ deadline \in 0 .. (MaxTime + 1)
  /\ now \in 0 .. MaxTime
  /\ parentErr \in {"nil"} \cup CtxErrs
  /\ childErr \in {"nil"} \cup CtxErrs
  /\ pcDo \in PcValues
  /\ ret \in {NoResult} \cup {result(v, e) : v \in Vals \cup {Zero}, e \in Errs}
  /\ outcome \in {"none", "result", "ctx"}
  /\ winner \in Ids \cup {NoAttempt}
  /\ received \in 0 .. MaxAttempts
  /\ tickerOn \in BOOLEAN
  /\ tickBuf \in 0 .. 1
  /\ launched \in 0 .. MaxAttempts
  /\ att \in [Ids -> {"none", "running", "returned", "finished"}]
  /\ sent \in [Ids -> {"no", "delivered", "dropped"}]
  /\ firstArrived \in Ids \cup {NoAttempt}
  /\ ctxFirst \in BOOLEAN
  /\ prompt \in BOOLEAN

\* ------------------------------------------------------------------- Init
Init ==
  /\ patience \in 0 .. MaxPatience
  /\ deadline \in 0 .. (MaxTime + 1)
  /\ now = 0
  /\ parentErr = "nil"
  /\ childErr = "nil"
  /\ pcDo = "call"
  /\ ret = NoResult
  /\ outcome = "none"
  /\ winner = NoAttempt
  /\ received = 0
  /\ tickerOn = FALSE
  /\ nextTick = 0
  /\ tickBuf = 0
  /\ ticksTaken = 0
  /\ launched = 0
  /\ att = [i \in Ids |-> "none"]
  /\ res = [i \in Ids |-> NoResult]
  /\ sent = [i \in Ids |-> "no"]
  /\ firstArrived = NoAttempt
  /\ firstAt = [beforeCtx |-> FALSE, early |-> FALSE]
  /\ ctxFirst = FALSE
  /\ prompt = TRUE

\* ------------------------------------------------------------ the context
\* No task has returned yet.
NoneReturned == \A i \in Ids : att[i] \in {"none", "running"}

\* Err() of the derived context once `parent` is done or cancel() was called:
\* the first cancellation's error stays.
ChildErrAfter(cur, e) == IF cur = "nil" THEN e ELSE cur

\* Variant of CtxResult: the context case returns no error.
CtxResultNilErr(e) == result(Zero, "nil")

\* return zero, ctx.Err()
CtxResult(e) == result(Zero, e)

\* The input context becomes done with error e.  The derived context (if Do
\* has made it) is cancelled with the same error, and a Do blocked in its
\* select wakes on <-ctx.Done() and returns.
CtxDone(e) ==
  /\ parentErr = "nil"
  /\ parentErr' = e
  /\ childErr' = IF pcDo = "call" THEN childErr ELSE ChildErrAfter(childErr, e)
  /\ ctxFirst' = NoneReturned
  /\ IF pcDo = "parked"
       THEN /\ pcDo' = "returning"
            /\ ret' = CtxResult(ChildErrAfter(childErr, e))
            /\ outcome' = "ctx"
            /\ UNCHANGED <<winner, received>>
       ELSE UNCHANGED doVars
  /\ UNCHANGED <<inputVars, now, tickVars, launched, attVars, prompt>>

\* The caller cancels the input context (followed until Do has finished).
CancelInput ==
  /\ pcDo \notin {"done", "panicked"}
  /\ CtxDone("Canceled")

\* The input context's deadline passes.
DeadlineFire ==
  /\ pcDo \notin {"done", "panicked"}
  /\ now >= deadline
  /\ CtxDone("DeadlineExceeded")

\* --------------------------------------------------------------------- Do
\* time.NewTicker panics on a non-positive interval.
NewTickerPanics(d) == d <= 0

\* Variant of DoStart: Do looks at the context first and starts nothing when
\* it is done already.
DoStartChecksCtx ==
  /\ pcDo = "call"
  /\ childErr' = parentErr
  /\ IF parentErr # "nil"
       THEN /\ pcDo' = "returning"
            /\ ret' = CtxResult(parentErr)
            /\ outcome' = "ctx"
            /\ UNCHANGED <<att, launched, tickVars>>
       ELSE /\ att' = [att EXCEPT ![0] = "running"]
            /\ launched' = 1
            /\ UNCHANGED <<ret, outcome>>
            /\ IF NewTickerPanics(patience)
                 THEN /\ pcDo' = "panicking"
                      /\ UNCHANGED tickVars
                 ELSE /\ pcDo' = "select"
                      /\ tickerOn' = TRUE
                      /\ nextTick' = now + patience
                      /\ UNCHANGED <<tickBuf, ticksTaken>>
  /\ UNCHANGED <<inputVars, now, parentErr, ctxFirst, winner,
                 received, res, sent, firstArrived, firstAt, prompt>>

\* Lines 21-28: WithCancel, make(chan), go runThunk (attempt 0), NewTicker.
DoStart ==
  /\ pcDo = "call"
  /\ childErr' = parentErr
  /\ att' = [att EXCEPT ![0] = "running"]
  /\ launched' = 1
  /\ IF NewTickerPanics(patience)
       THEN /\ pcDo' = "panicking"
            /\ UNCHANGED tickVars
       ELSE /\ pcDo' = "select"
            /\ tickerOn' = TRUE
            /\ nextTick' = now + patience
            /\ UNCHANGED <<tickBuf, ticksTaken>>
  /\ UNCHANGED <<inputVars, now, parentErr, ctxFirst, ret, outcome, winner,
                 received, res, sent, firstArrived, firstAt, prompt>>

\* case <-ctx.Done(): return zero, ctx.Err()
SelectCtx ==
  /\ childErr # "nil"
  /\ pcDo' = "returning"
  /\ ret' = CtxResult(childErr)
  /\ outcome' = "ctx"
  /\ UNCHANGED <<winner, received, tickVars>>

\* case <-ticker.C, a tick being buffered
SelectTick ==
  /\ tickBuf = 1
  /\ tickBuf' = 0
  /\ ticksTaken' = ticksTaken + 1
  /\ pcDo' = "tick"
  /\ UNCHANGED <<ret, outcome, winner, received, tickerOn, nextTick>>

\* Variant of SelectBlock: Do goes to sleep on out and ticker.C without
\* looking at ctx.Done() first.
SelectBlockIgnoresCtx ==
  /\ tickBuf = 0
  /\ pcDo' = "parked"
  /\ UNCHANGED <<ret, outcome, winner, received, tickVars>>

\* no case is ready: Do blocks.  (out is never ready here: no sender waits.)
SelectBlock ==
  /\ childErr = "nil"
  /\ tickBuf = 0
  /\ pcDo' = "parked"
  /\ UNCHANGED <<ret, outcome, winner, received, tickVars>>

\* Do reaches its select statement (line 31).
DoSelect ==
  /\ pcDo = "select"
  /\ (SelectCtx \/ SelectTick \/ SelectBlock)
  /\ UNCHANGED <<inputVars, now, ctxVars, launched, attVars, prompt>>

\* Variant of DoLaunch: a hidden cap of two concurrent attempts.
DoLaunchCapped ==
  /\ pcDo = "tick"
  /\ launched < MaxAttempts
  /\ IF launched < 2
       THEN /\ att' = [att EXCEPT ![launched] = "running"]
            /\ launched' = launched + 1
       ELSE UNCHANGED <<att, launched>>
  /\ pcDo' = "select"
  /\ UNCHANGED <<inputVars, now, ctxVars, ret, outcome, winner, received,
                 tickVars, res, sent, firstArrived, firstAt, prompt>>

\* Variant of DoLaunch: the loop has a terminal count; after its last launch
\* Do gives up and returns the zero value with an error.
DoLaunchGivesUp ==
  /\ pcDo = "tick"
  /\ launched < MaxAttempts
  /\ att' = [att EXCEPT ![launched] = "running"]
  /\ launched' = launched + 1
  /\ IF launched + 1 = MaxAttempts
       THEN pcDo' = "returning" /\ ret' = CtxResult("DeadlineExceeded")
       ELSE pcDo' = "select" /\ ret' = ret
  /\ UNCHANGED <<inputVars, now, ctxVars, outcome, winner, received,
                 tickVars, res, sent, firstArrived, firstAt, prompt>>

\* Variant of DoLaunch: each tick cancels the scope of the attempts already
\* running before it starts the next one.
DoLaunchCancelsFirst ==
  /\ pcDo = "tick"
  /\ launched < MaxAttempts
  /\ childErr' = ChildErrAfter(childErr, "Canceled")
  /\ att' = [att EXCEPT ![launched] = "running"]
  /\ launched' = launched + 1
  /\ pcDo' = "select"
  /\ UNCHANGED <<inputVars, now, parentErr, ctxFirst, ret, outcome, winner,
                 received, tickVars, res, sent, firstArrived, firstAt, prompt>>

\* Variant of DoLaunch: a tick launches nothing while two attempts are in
\* flight.
DoLaunchInFlightCap ==
  /\ pcDo = "tick"
  /\ launched < MaxAttempts
  /\ IF Cardinality({i \in Ids : att[i] = "running"}) < 2
       THEN /\ att' = [att EXCEPT ![launched] = "running"]
            /\ launched' = launched + 1
       ELSE UNCHANGED <<att, launched>>
  /\ pcDo' = "select"
  /\ UNCHANGED <<inputVars, now, ctxVars, ret, outcome, winner, received,
                 tickVars, res, sent, firstArrived, firstAt, prompt>>

\* Variant of DoLaunch: the launches are made by a goroutine of their own,
\* which may still take a tick after Do has chosen what to return.
DoLaunchAfterOutcome ==
  /\ \/ pcDo = "tick"
     \/ pcDo = "returning" /\ tickBuf = 1
  /\ launched < MaxAttempts
  /\ att' = [att EXCEPT ![launched] = "running"]
  /\ launched' = launched + 1
  /\ pcDo' = IF pcDo = "tick" THEN "select" ELSE pcDo
  /\ tickBuf' = IF pcDo = "tick" THEN tickBuf ELSE 0
  /\ UNCHANGED <<inputVars, now, ctxVars, ret, outcome, winner, received,
                 tickerOn, nextTick, ticksTaken, res, sent, firstArrived,
                 firstAt, prompt>>

\* case <-ticker.C: go runThunk(ctx, thunk, out); then the loop goes round.
DoLaunch ==
  /\ pcDo = "tick"
  /\ launched < MaxAttempts
  /\ att' = [att EXCEPT ![launched] = "running"]
  /\ launched' = launched + 1
  /\ pcDo' = "select"
  /\ UNCHANGED <<inputVars, now, ctxVars, ret, outcome, winner, received,
                 tickVars, res, sent, firstArrived, firstAt, prompt>>

\* Variant of DoDefer: cancel() is not deferred.
DoDeferNoCancel ==
  /\ pcDo \in {"returning", "panicking"}
  /\ pcDo' = IF pcDo = "returning" THEN "done" ELSE "panicked"
  /\ tickerOn' = FALSE
  /\ UNCHANGED <<inputVars, now, ctxVars, ret, outcome, winner, received,
                 nextTick, tickBuf, ticksTaken, launched, attVars, prompt>>

\* Variant of DoDefer: before returning Do looks at the context once more and
\* returns its error if it is done by then.
DoDeferCtxOverrides ==
  /\ pcDo \in {"returning", "panicking"}
  /\ pcDo' = IF pcDo = "returning" THEN "done" ELSE "panicked"
  /\ tickerOn' = FALSE
  /\ childErr' = ChildErrAfter(childErr, "Canceled")
  /\ IF pcDo = "returning" /\ childErr # "nil"
       THEN ret' = CtxResult(childErr) /\ outcome' = "ctx"
       ELSE UNCHANGED <<ret, outcome>>
  /\ UNCHANGED <<inputVars, now, parentErr, ctxFirst, winner,
                 received, nextTick, tickBuf, ticksTaken, launched, attVars,
                 prompt>>

\* Variant of DoDefer: the cancel reaches the caller's context too, as if Do
\* had not derived a context of its own.
DoDeferCancelsInput ==
  /\ pcDo \in {"returning", "panicking"}
  /\ pcDo' = IF pcDo = "returning" THEN "done" ELSE "panicked"
  /\ tickerOn' = FALSE
  /\ childErr' = ChildErrAfter(childErr, "Canceled")
  /\ parentErr' = ChildErrAfter(parentErr, "Canceled")
  /\ UNCHANGED <<inputVars, now, ctxFirst, ret, outcome, winner,
                 received, nextTick, tickBuf, ticksTaken, launched, attVars,
                 prompt>>

\* The deferred calls, on return and on panic: ticker.Stop() (if the ticker
\* was made) and cancel().
DoDefer ==
  /\ pcDo \in {"returning", "panicking"}
  /\ pcDo' = IF pcDo = "returning" THEN "done" ELSE "panicked"
  /\ tickerOn' = FALSE
  /\ childErr' = ChildErrAfter(childErr, "Canceled")
  /\ UNCHANGED <<inputVars, now, parentErr, ctxFirst, ret, outcome, winner,
                 received, nextTick, tickBuf, ticksTaken, launched, attVars,
                 prompt>>

\* ------------------------------------------------------------- the ticker
\* Attempts the model still has room for.
Room == launched + tickBuf + (IF pcDo = "tick" THEN 1 ELSE 0) < MaxAttempts

\* The ticker fires: the tick goes to a blocked Do, or into the buffer, or
\* is dropped.  The next tick is due one period after the last due time that
\* has passed.
TickFire ==
  /\ tickerOn
  /\ now >= nextTick
  /\ Room
  /\ nextTick' = nextTick + patience * (1 + ((now - nextTick) \div patience))
  /\ IF pcDo = "parked"
       THEN /\ pcDo' = "tick"
            /\ ticksTaken' = ticksTaken + 1
            /\ UNCHANGED tickBuf
       ELSE /\ tickBuf' = 1
            /\ UNCHANGED <<pcDo, ticksTaken>>
  /\ UNCHANGED <<inputVars, now, ctxVars, ret, outcome, winner, received,
                 tickerOn, launched, attVars, prompt>>

\* --------------------------------------------------------------- runThunk
\* What thunk(ctx) may return: its own result, or, once ctx is done, the
\* zero value with ctx.Err().
ThunkOutcomes ==
  TaskResults \cup (IF childErr = "nil" THEN {} ELSE {result(Zero, childErr)})

\* r.val, r.err = thunk(ctx)
ThunkReturn(i) ==
  /\ att[i] = "running"
  /\ \E r \in ThunkOutcomes : res' = [res EXCEPT ![i] = r]
  /\ att' = [att EXCEPT ![i] = "returned"]
  /\ UNCHANGED <<inputVars, now, ctxVars, doVars, tickVars, launched, sent,
                 firstArrived, firstAt, prompt>>

\* Variant of CanSend: out keeps taking results after the first one.
CanSendAgain == pcDo \in {"parked", "returning", "done"}

\* The send of runThunk's select can proceed: Do is blocked receiving.
CanSend == pcDo = "parked"

\* Variant of Delivered: r is shared by the goroutines, so the error may be
\* another attempt's.
DeliveredMixed(i) == result(res[i].val, res[0].err)

\* case r := <-out: return r.val, r.err
Delivered(i) == result(res[i].val, res[i].err)

\* Variant of Send: a plain `out <- r`, with no default branch.
SendBlocking(i) ==
  /\ att[i] = "returned"
  /\ CanSend
  /\ att' = [att EXCEPT ![i] = "finished"]
  /\ IF firstArrived = NoAttempt
       THEN /\ firstArrived' = i
            /\ firstAt' = [beforeCtx |-> parentErr = "nil",
                            early |-> now < patience]
       ELSE UNCHANGED <<firstArrived, firstAt>>
  /\ sent' = [sent EXCEPT ![i] = "delivered"]
  /\ pcDo' = "returning"
  /\ ret' = Delivered(i)
  /\ outcome' = "result"
  /\ winner' = i
  /\ received' = received + 1
  /\ UNCHANGED <<inputVars, now, ctxVars, tickVars, launched, res, prompt>>

\* Variant of Send: an attempt whose task failed and whose result nobody
\* took calls the task again.
SendRetry(i) ==
  /\ att[i] = "returned"
  /\ IF firstArrived = NoAttempt
       THEN /\ firstArrived' = i
            /\ firstAt' = [beforeCtx |-> parentErr = "nil",
                            early |-> now < patience]
       ELSE UNCHANGED <<firstArrived, firstAt>>
  /\ IF CanSend
       THEN /\ att' = [att EXCEPT ![i] = "finished"]
            /\ sent' = [sent EXCEPT ![i] = "delivered"]
            /\ pcDo' = "returning"
            /\ ret' = Delivered(i)
            /\ outcome' = "result"
            /\ winner' = i
            /\ received' = received + 1
       ELSE /\ att' = [att EXCEPT ![i] = IF res[i].err = "nil"
                                           THEN "finished" ELSE "running"]
            /\ sent' = [sent EXCEPT ![i] = "dropped"]
            /\ UNCHANGED doVars
  /\ UNCHANGED <<inputVars, now, ctxVars, tickVars, launched, res, prompt>>

\* select { case out <- r: ... default: }
Send(i) ==
  /\ att[i] = "returned"
  /\ att' = [att EXCEPT ![i] = "finished"]
  /\ IF firstArrived = NoAttempt
       THEN /\ firstArrived' = i
            /\ firstAt' = [beforeCtx |-> parentErr = "nil",
                            early |-> now < patience]
       ELSE UNCHANGED <<firstArrived, firstAt>>
  /\ IF CanSend
       THEN /\ sent' = [sent EXCEPT ![i] = "delivered"]
            /\ pcDo' = "returning"
            /\ ret' = Delivered(i)
            /\ outcome' = "result"
            /\ winner' = i
            /\ received' = received + 1
       ELSE /\ sent' = [sent EXCEPT ![i] = "dropped"]
            /\ UNCHANGED doVars
  /\ UNCHANGED <<inputVars, now, ctxVars, tickVars, launched, res, prompt>>

\* ------------------------------------------------------------------- time
\* Something that takes no time is pending: a due timer, or a step of Do.
Pending ==
  \/ pcDo \in {"select", "tick"}
  \/ tickerOn /\ now >= nextTick
  \/ parentErr = "nil" /\ now >= deadline

\* The clock moves on.  It is followed from the call of Do (time 0) until Do
\* chooses its outcome, so that afterwards `now` is the time of the outcome.
Advance ==
  /\ pcDo \in {"select", "parked", "tick"}
  /\ now < MaxTime
  /\ now' = now + 1
  /\ prompt' = (prompt /\ ~Pending)
  /\ UNCHANGED <<inputVars, ctxVars, doVars, tickVars, launched, attVars>>

\* ------------------------------------------------------------------- Next
Next ==
  \/ DoStart
  \/ DoSelect
  \/ DoLaunch
  \/ DoDefer
  \/ TickFire
  \/ CancelInput
  \/ DeadlineFire
  \/ Advance
  \/ \E i \in Ids : ThunkReturn(i)
  \/ \E i \in Ids : Send(i)

Spec == Init /\ [][Next]_vars

\* ---------------------------------------------------------------- fairness
\* The select takes its ctx.Done() case: when several cases are ready the Go
\* runtime picks one at random, so a case that is ready again and again is
\* taken in the end.
DoSelectCtx == DoSelect /\ outcome' = "ctx"

\* A task that honours cancellation: it returns once its context is done.
CancelledReturn(i) == childErr # "nil" /\ ThunkReturn(i)

\* The scheduler runs every goroutine that can run: Do's own steps and, in
\* each attempt's goroutine, the send that follows the task's return.
Fairness ==
  /\ WF_vars(DoStart)
  /\ WF_vars(DoSelect)
  /\ SF_vars(DoSelectCtx)
  /\ WF_vars(DoLaunch)
  /\ WF_vars(DoDefer)
  /\ \A i \in Ids : WF_vars(Send(i))
  /\ \A i \in Ids : WF_vars(CancelledReturn(i))

FairSpec == Init /\ [][Next]_vars /\ Fairness

\* ================================================================= claims
Chosen   == pcDo \in {"returning", "done"}   \* Do has picked what it returns
Returned == pcDo = "done"                    \* Do has returned to its caller
Completed(i) == att[i] \in {"returned", "finished"}
\* Whole patience intervals elapsed since the call (patience > 0).
Intervals == now \div patience

\* The race alone decides: some attempt has completed (reached its send) and
\* the input context has not become done, neither before that nor since, nor
\* has its deadline been reached.
RaceOnly ==
  /\ firstArrived # NoAttempt
  /\ firstAt.beforeCtx
  /\ parentErr = "nil"
  /\ now < deadline

\* C1: when some attempt completes before the input context is done, what Do
\* returns is the pair of the attempt that completed (reached its send) first,
\* whatever the order in which the attempts were started.  Stated for the
\* executions in which the input context stays not done.
C1_FirstCompletedWins ==
  (Returned /\ RaceOnly) => (winner = firstArrived /\ ret = res[firstArrived])

\* C2: the race is blind to errors: when the first attempt to complete failed,
\* Do returns its error and does not wait for a success; when it succeeded, Do
\* returns a nil error however another attempt fails later.
C2_ErrorBlindRace ==
  (Returned /\ RaceOnly)
    => /\ res[firstArrived].err = "boom" => ret.err = "boom"
       /\ res[firstArrived].err = "nil" => ret.err = "nil"

\* C3: when the input context becomes done before any attempt has completed,
\* Do returns the zero value with the context's own error, whether or not any
\* attempt ever finishes.
C3_CtxErrorWhenCtxFirst ==
  (Chosen /\ ctxFirst) => (outcome = "ctx" /\ ret = result(Zero, parentErr))

C3_Witness ==
  /\ Returned
  /\ ctxFirst
  /\ launched = 2
  /\ \A i \in 0 .. 1 : att[i] = "running"
  /\ ret = result(Zero, "DeadlineExceeded")

\* C4: in every state in which Do has returned, the scope handed to the
\* attempts is cancelled, and its error is Canceled unless the input context's
\* deadline had expired.
C4_ReturnCancelsScope ==
  Returned => /\ childErr # "nil"
              /\ parentErr # "DeadlineExceeded" => childErr = "Canceled"
              /\ \A i \in Ids : att[i] = "running"
                    => result(Zero, childErr) \in ThunkOutcomes

C4_Witness ==
  /\ Returned
  /\ outcome = "result"
  /\ launched = 3
  /\ Cardinality({i \in Ids : att[i] = "running"}) = 2
  /\ deadline <= MaxTime
  /\ parentErr = "nil"
  /\ childErr = "Canceled"

\* C5: when attempt 0 completes before one patience interval has elapsed,
\* exactly one attempt is ever run and Do returns that attempt's pair.
C5_SingleAttempt ==
  (RaceOnly /\ firstArrived = 0 /\ firstAt.early)
    => /\ launched = 1
       /\ Returned => ret = res[0]

\* C6 as stated: Do launches exactly N + 1 attempts, N the number of whole
\* patience intervals elapsed when Do observed a winner or the context done.
C6_ExactlyNPlusOne ==
  (Chosen /\ patience > 0 /\ Intervals + 1 <= MaxAttempts)
    => launched = Intervals + 1

\* C6 as amended: Do launches attempt 0 and one attempt for each tick it takes
\* from the ticker, never more than N + 1; with every timer on time and Do
\* never kept waiting it is N + 1, or N when the outcome falls on the very
\* instant of a tick that had not fired yet.
C6_OnePerTickTaken ==
  (Chosen /\ patience > 0)
    => /\ launched = ticksTaken + 1
       /\ launched <= Intervals + 1
       /\ (prompt /\ Intervals + 1 <= MaxAttempts)
            => /\ launched >= Intervals
               /\ now % patience # 0 => launched = Intervals + 1

C6_Witness ==
  /\ Returned
  /\ prompt
  /\ patience = 2
  /\ now = 3
  /\ launched = 2
  /\ ticksTaken = 1
  /\ outcome = "result"

\* C7: an attempt that completes late never blocks on its send, and once Do
\* has returned nothing changes what it returned.
C7_LateCompletionHarmless ==
  /\ [](\A i \in Ids : att[i] = "returned" => ENABLED Send(i))
  /\ [][Returned => (pcDo' = pcDo /\ ret' = ret)]_vars

C7_Witness ==
  /\ Returned
  /\ outcome = "result"
  /\ \E i \in Ids : att[i] = "returned" /\ i # winner /\ res[i] # ret

\* C8: at most one result is ever received by Do, however many attempts
\* complete; the caller gets one pair and the other results are dropped.
C8_AtMostOneConsumed ==
  /\ received <= 1
  /\ Cardinality({i \in Ids : sent[i] = "delivered"}) = received
  /\ Returned =>
       /\ ret # NoResult
       /\ outcome = "result" => (received = 1 /\ sent[winner] = "delivered")
       /\ outcome = "ctx" => received = 0
       /\ \A i \in Ids : (att[i] = "finished" /\ i # winner)
             => sent[i] = "dropped"

C8_Witness ==
  /\ Returned
  /\ outcome = "result"
  /\ Cardinality({i \in Ids : att[i] = "finished"}) = 3
  /\ Cardinality({i \in Ids : sent[i] = "dropped"}) = 2

\* C9: the pair Do returns is the pair of one invocation of the task, or the
\* zero value with the input context's error; nothing else.
C9_PassThrough ==
  Chosen =>
    \/ \E i \in Ids : Completed(i) /\ ret = res[i]
    \/ parentErr # "nil" /\ ret = result(Zero, parentErr)

C9_Witness ==
  /\ Returned
  /\ outcome = "result"
  /\ winner = 1
  /\ Completed(0)
  /\ res[0] = result(2, "boom")
  /\ ret = result(1, "nil")

\* C10: a patience of zero is accepted: Do does not abort because of it.
C10_ZeroPatienceAccepted ==
  patience = 0 => pcDo \notin {"panicking", "panicked"}

\* C11: a completed attempt's send is dropped only if another attempt has
\* delivered before or Do has stopped listening (it has chosen its outcome or
\* ended); the first attempt to complete while Do is running delivers.  Stated
\* for the executions in which the input context stays not done.
C11_DroppedOnlyWhenDecided ==
  \A i \in Ids :
    (sent[i] = "dropped" /\ parentErr = "nil" /\ now < deadline)
      => \/ received >= 1
         \/ outcome # "none"
         \/ pcDo \in {"panicking", "panicked"}

\* C12: Do returns the context error only if no attempt has delivered a
\* result: the context case is never taken after a delivery, and what it
\* returns is the zero value with the input context's error.
C12_CtxErrorOnlyBeforeDelivery ==
  /\ (Chosen /\ (outcome = "ctx" \/ ret.err \in CtxErrs))
       => /\ outcome = "ctx"
          /\ received = 0
          /\ \A i \in Ids : sent[i] # "delivered"
          /\ parentErr # "nil"
          /\ ret = result(Zero, parentErr)
  /\ received >= 1 => (outcome = "result" /\ ret = res[winner])

C12_Witness ==
  /\ Returned
  /\ outcome = "result"
  /\ parentErr = "Canceled"
  /\ ret = result(1, "nil")

\* C14: Do's loop ends only by receiving a result from an attempt or by the
\* context being done: whenever Do has chosen what to return or has returned,
\* either it received an attempt's result or the input context was done; so
\* while the input context is not done and no task has returned, Do has not
\* returned.
C14_LoopEndsOnlyByResultOrCtx ==
  /\ Chosen =>
       \/ /\ outcome = "result"
          /\ received = 1
          /\ winner \in Ids
          /\ sent[winner] = "delivered"
       \/ /\ outcome = "ctx"
          /\ received = 0
          /\ parentErr # "nil"
  /\ (parentErr = "nil" /\ NoneReturned) => ~Chosen

C14_Witness ==
  /\ pcDo = "parked"
  /\ launched = MaxAttempts
  /\ \A i \in Ids : att[i] = "running"
  /\ parentErr = "nil"
  /\ now = MaxTime

\* C16: an attempt is launched only at the start of Do (attempt 0) and on a
\* tick taken while no result has been received; an attempt's completion,
\* failing or not, launches nothing; each launched attempt calls the task
\* exactly once (it goes from running to returned to finished and never
\* runs again).
C16_LaunchOnlyAtStartAndOnTick ==
  /\ [](\A i \in Ids : (i < launched) <=> (att[i] # "none"))
  /\ [][/\ launched' # launched =>
            /\ launched' = launched + 1
            /\ att[launched] = "none" /\ att'[launched] = "running"
            /\ \/ pcDo = "call" /\ launched = 0
               \/ pcDo = "tick" /\ received = 0 /\ outcome = "none"
        /\ \A i \in Ids : att'[i] # att[i] =>
              <<att[i], att'[i]>> \in {<<"none", "running">>,
                                       <<"running", "returned">>,
                                       <<"returned", "finished">>}
        /\ (\E i \in Ids : att[i] \in {"running", "returned"}
                              /\ att'[i] \in {"returned", "finished"}
                              /\ att'[i] # att[i])
             => launched' = launched]_vars

C16_Witness ==
  /\ \E i \in Ids : /\ att[i] = "finished"
                     /\ sent[i] = "dropped"
                     /\ res[i].err = "boom"
  /\ launched = 1
  /\ pcDo = "parked"
  /\ outcome = "none"
  /\ parentErr = "nil"

\* C17: Do does not cancel the attempts' scope while the race is open: until
\* Do has ended, the context it made for the attempts is done only if, and
\* as, the input context is; the scope goes from open to cancelled by Do's own cancel only
\* in the step that ends Do, after the outcome was chosen, and it is cancelled
\* in every state in which Do has returned.
C17_NoCancelWhileRaceOpen ==
  /\ [](pcDo \notin {"call", "done", "panicked"} => childErr = parentErr)
  /\ [](Returned => (childErr # "nil" /\ outcome # "none"))
  /\ [][(childErr = "nil" /\ childErr' # "nil" /\ parentErr' = "nil")
          => (pcDo \in {"returning", "panicking"}
              /\ pcDo' \in {"done", "panicked"})]_vars

C17_Witness ==
  /\ pcDo = "returning"
  /\ outcome = "result"
  /\ winner = 1
  /\ childErr = "nil"
  /\ att[0] = "running"
  /\ att[2] = "running"

\* C18: no cap on concurrent attempts: once Do has taken a tick, the launch
\* is its next step and can always be taken, and it starts a new attempt
\* however many attempts are still in flight.
C18_TickAlwaysLaunches ==
  /\ [](pcDo = "tick" => ENABLED DoLaunch)
  /\ [][(pcDo = "tick" /\ pcDo' # "tick")
          => /\ launched' = launched + 1
             /\ att'[launched] = "running"
             /\ \A i \in Ids : i # launched => att'[i] = att[i]]_vars

C18_Witness ==
  /\ launched = MaxAttempts
  /\ ticksTaken = MaxAttempts - 1
  /\ \A i \in Ids : att[i] = "running"
  /\ outcome = "none"
  /\ parentErr = "nil"

\* C20: no attempt is launched after Do has received a result, seen the
\* context done, or ended: from the moment the outcome is chosen no step
\* changes the number of launches or starts an attempt that had not started.
C20_NoLaunchAfterOutcome ==
  [][(Chosen \/ outcome # "none" \/ received > 0
        \/ pcDo \in {"panicking", "panicked"})
      => /\ launched' = launched
         /\ \A i \in Ids : att[i] = "none" => att'[i] = "none"]_vars

C20_Witness ==
  /\ Returned
  /\ tickBuf = 1
  /\ launched < MaxAttempts
  /\ \E i \in Ids : att[i] = "running"
  /\ \A i \in Ids : i >= launched => att[i] = "none"

C13_AttemptsTerminateAfterReturn ==
  [](Returned => <>(\A i \in Ids : att[i] \in {"none", "finished"}))

C13_Witness ==
  /\ Returned
  /\ parentErr = "nil"
  /\ launched = MaxAttempts
  /\ \A i \in Ids : att[i] = "finished"
  /\ \E i \in Ids : res[i] = result(Zero, "Canceled")

\* C15: once the input context is done, Do returns in the end, whatever the
\* attempts do (tasks that never return, that ignore the cancellation, ticks
\* that keep coming), under fair scheduling; for the patience values with
\* which Do gets to its loop.
C15_CtxDoneLeadsToReturn ==
  [](((~NewTickerPanics(patience)) /\ parentErr # "nil") => <>Returned)

C15_Witness ==
  /\ Returned
  /\ outcome = "ctx"
  /\ parentErr = "Canceled"
  /\ launched = MaxAttempts
  /\ ticksTaken = MaxAttempts - 1
  /\ \A i \in Ids : att[i] = "running"

\* C21: Do never cancels or changes the caller's input context: no step of Do
\* or of an attempt changes it (it changes only by the caller's cancel or its
\* deadline, which at most wake a blocked Do), and the step in which Do ends
\* and cancels cancels the derived context only; so an input context that is
\* not done when Do chooses a winner is not done either when Do has returned
\* it, unless the caller or the deadline ended it meanwhile.
C21_InputContextUntouched ==
  /\ [][parentErr' # parentErr =>
          /\ parentErr = "nil"
          /\ \/ parentErr' = "Canceled"
             \/ parentErr' = "DeadlineExceeded" /\ now >= deadline
          /\ UNCHANGED <<inputVars, now, tickVars, launched, attVars, winner,
                         received>>
          /\ \/ UNCHANGED doVars
             \/ pcDo = "parked" /\ pcDo' = "returning" /\ outcome' = "ctx"]_vars
  /\ [][(pcDo \in {"returning", "panicking"} /\ pcDo' \in {"done", "panicked"})
          => /\ parentErr' = parentErr
             /\ childErr' # "nil"]_vars

C21_Witness ==
  /\ Returned
  /\ outcome = "result"
  /\ parentErr = "nil"
  /\ childErr = "Canceled"
  /\ deadline <= MaxTime
  /\ launched = 1

\* C22: every call of Do starts attempt 0 before it looks at the context, so
\* the task is called at least once per call, also when the input context is
\* done already at the call; in that case whatever Do returns is the zero
\* value with the context's error, and no result is received.
C22_AttemptZeroAlwaysLaunched ==
  /\ [](pcDo # "call" => (launched >= 1 /\ att[0] # "none"))
  /\ [][(pcDo = "call" /\ pcDo' # "call")
          => (launched' = 1 /\ att'[0] = "running")]_vars
  /\ []((pcDo = "call" /\ parentErr # "nil")
          => [](/\ received = 0
                /\ Chosen => (outcome = "ctx" /\ ret = result(Zero, parentErr))))

C22_Witness ==
  /\ Returned
  /\ outcome = "ctx"
  /\ deadline = 0
  /\ now = 0
  /\ ret = result(Zero, "DeadlineExceeded")
  /\ launched = 1
  /\ att[0] = "finished"
  /\ res[0] \in TaskResults

====
